---- MODULE Spec2Model ----
(***************************************************************************)
(* Model of the signing-job proxy: the in-memory SigningStore              *)
(* (backend/goodflag.ts) and the request handlers that drive it            *)
(* (backend/main.ts): handleSign, handleGetStatus, handleDownload, and the *)
(* store's eviction timer.                                                 *)
(*                                                                         *)
(* JavaScript strings are modelled as sequences of one-character strings,  *)
(* so that toLowerCase, template literals and lastIndexOf are computed.    *)
(* SigningJob objects live in `heap`, indexed by job id; `jobs` is the key *)
(* set of the store's #jobs Map.  A handler's local `job` variable is a    *)
(* reference into the heap: an evicted job is no longer in `jobs`, but a   *)
(* handler that still holds the reference keeps reading the object.        *)
(***************************************************************************)
EXTENDS Integers, Sequences, FiniteSets, TLC

\* ------------------------------------------------------------------ bounds
MaxJobs == 1        \* uploads accepted during a run (one job per upload)
NumPollers == 2     \* status queries that can be in flight at once
TTL == 1            \* the store's ttlMs (ONE_HOUR), in clock ticks of one hour
MaxTime == 2 * TTL  \* the clock stops here: two sweep ticks are seen
LongTime == 4 * TTL \* the clock of SpecTimer stops here: four sweep ticks are seen

JobIds == 1..MaxJobs
Pollers == 1..NumPollers
UnknownId == 0      \* a job id that createJob never returned

\* ----------------------------------------------------------------- strings
Undefined == <<"undefined">>    \* an absent optional string
UndefinedBytes == <<-1>>        \* an absent Uint8Array
UndefinedId == "undefined"      \* an absent workflow id
NoJob == 0                      \* `job` after getJob found nothing

UpperChars == <<"A", "C", "D", "E", "F", "I", "L", "N", "O", "P", "R", "S", "T", "U">>
LowerChars == <<"a", "c", "d", "e", "f", "i", "l", "n", "o", "p", "r", "s", "t", "u">>

ToLowerChar(c) ==
    IF \E i \in 1..Len(UpperChars) : UpperChars[i] = c
    THEN LowerChars[CHOOSE i \in 1..Len(UpperChars) : UpperChars[i] = c]
    ELSE c

\* String.prototype.toLowerCase
toLowerCase(s) == [i \in 1..Len(s) |-> ToLowerChar(s[i])]

\* String.prototype.includes
Includes(s, sub) ==
    \E i \in 0..(Len(s) - Len(sub)) : SubSeq(s, i + 1, i + Len(sub)) = sub

\* faulty variant: the index of the first occurrence, as indexOf gives it
firstIndexOf(s, c) ==
    IF \E i \in 1..Len(s) : s[i] = c
    THEN (CHOOSE i \in 1..Len(s) : s[i] = c /\ \A k \in 1..(i - 1) : s[k] # c) - 1
    ELSE -1

\* String.prototype.lastIndexOf for a single character, 0-based, -1 if none
lastIndexOf(s, c) ==
    IF \E i \in 1..Len(s) : s[i] = c
    THEN (CHOOSE i \in 1..Len(s) : s[i] = c /\ \A k \in (i + 1)..Len(s) : s[k] # c) - 1
    ELSE -1

\* a string of JavaScript is truthy unless it is absent or empty
Truthy(s) == s # Undefined /\ s # <<>>

\* String.prototype.endsWith
endsWith(s, suffix) ==
    Len(s) >= Len(suffix) /\ SubSeq(s, Len(s) - Len(suffix) + 1, Len(s)) = suffix

\* String.prototype.trim, for strings whose only white space is the blank
trim(s) ==
    LET inked == {i \in 1..Len(s) : s[i] # " "} IN
    IF inked = {} THEN <<>>
    ELSE SubSeq(s, CHOOSE i \in inked : \A k \in inked : i <= k,
                   CHOOSE i \in inked : \A k \in inked : i >= k)

\* ------------------------------------------------------------- input values
S_finished == <<"f", "i", "n", "i", "s", "h", "e", "d">>
S_stopped == <<"s", "t", "o", "p", "p", "e", "d">>
S_refused == <<"r", "e", "f", "u", "s", "e", "d">>
S_canceled == <<"c", "a", "n", "c", "e", "l", "e", "d">>
S_failed == <<"f", "a", "i", "l", "e", "d">>
S_started == <<"s", "t", "a", "r", "t", "e", "d">>
S_Finished == <<"F", "i", "n", "i", "s", "h", "e", "d">>
S_REFUSED == <<"R", "E", "F", "U", "S", "E", "D">>
S_Workflow == <<"W", "o", "r", "k", "f", "l", "o", "w", " ">>
S_signed == <<"-", "s", "i", "g", "n", "e", "d">>
S_signedPdf == <<"-", "s", "i", "g", "n", "e", "d", ".", "p", "d", "f">>

\* workflowStatus values a provider response can carry (absent and empty included)
RemoteStatuses ==
    {Undefined, <<>>, S_started, S_finished, S_Finished, S_REFUSED, S_stopped,
     S_canceled, S_failed}

\* the same, one value of each kind
FewStatuses == {Undefined, S_started, S_Finished, S_REFUSED}

\* statuses seen by createWorkflow and startWorkflow responses
StartStatuses == {Undefined, S_started}

FileNames == {<<"r", ".", "p", "d", "f">>, <<"R", "E", "A", "D", "M", "E">>}
FileTypes == {"application/pdf", "text/plain", ""}

S_reportPdf == <<"r", "e", "p", "o", "r", "t", ".", "p", "d", "f">>
S_README == <<"R", "E", "A", "D", "M", "E">>

\* original file names for the derivation of the signed name: one dot, none,
\* two, a leading one, a trailing one
OriginalNames ==
    {S_reportPdf, S_README, <<"a", ".", "b", ".", "p", "d", "f">>, <<".", "e", "n", "v">>, <<"a", ".">>}

S_dotPdf == <<".", "p", "d", "f">>
S_multipart == <<"m", "u", "l", "t", "i", "p", "a", "r", "t", "/", "f", "o", "r", "m", "-", "d", "a", "t", "a">>
S_multipartHeader == S_multipart \o <<";", " ", "b", "o", "u", "n", "d", "a", "r", "y", "=", "x">>
S_jsonHeader == <<"a", "p", "p", "l", "i", "c", "a", "t", "i", "o", "n", "/", "j", "s", "o", "n">>
S_documentPdf == <<"d", "o", "c", "u", "m", "e", "n", "t", ".", "p", "d", "f">>

\* an upload request: the content-type header ("" when there is none),
\* whether the field `file` is a File, the file's name and type, and the
\* field signer_email
UploadRequest(contentType, hasFile, fileName, fileType, signerEmail) ==
    [contentType |-> contentType, hasFile |-> hasFile, fileName |-> fileName,
     fileType |-> fileType, signerEmail |-> signerEmail]

\* a value of the form field signer_email: an address between blanks
GoodEmail == <<" ", "a", "@", "b", " ">>

\* the uploads clients send: three that pass validation (a PDF by its name
\* only, a file without a type, a PDF by its type only) and one or two that
\* fail each test
Uploads ==
    {UploadRequest(S_multipartHeader, TRUE, <<"r", ".", "p", "d", "f">>, "text/plain", GoodEmail),
     UploadRequest(S_multipartHeader, TRUE, <<"R", "E", "A", "D", "M", "E">>, "", GoodEmail),
     UploadRequest(S_multipartHeader, TRUE, <<"R", "E", "A", "D", "M", "E">>,
                   "application/pdf", GoodEmail),
     UploadRequest(S_jsonHeader, TRUE, <<"r", ".", "p", "d", "f">>, "application/pdf", GoodEmail),
     UploadRequest(<<>>, TRUE, <<"r", ".", "p", "d", "f">>, "application/pdf", GoodEmail),
     UploadRequest(S_multipartHeader, FALSE, <<>>, "", GoodEmail),
     UploadRequest(S_multipartHeader, TRUE, <<"R", "E", "A", "D", "M", "E">>,
                   "text/plain", GoodEmail),
     UploadRequest(S_multipartHeader, TRUE, <<"r", ".", "p", "d", "f">>,
                   "application/pdf", Undefined),
     UploadRequest(S_multipartHeader, TRUE, <<"r", ".", "p", "d", "f">>,
                   "application/pdf", <<" ">>)}
WorkflowIds == {"wfl_1", "wfl_2"}
ErrorTexts == {<<"5", "0", "0">>}

\* results of downloadWorkflowDocuments: bytes, optional file name, content type
DownloadResults ==
    [bytes : {<<1>>, <<2>>},
     fileName : {Undefined, <<"s", ".", "p", "d", "f">>},
     contentType : {"application/pdf"}]

\* the same, two documents: one without and one with a file name
FewDownloads ==
    {[bytes |-> <<1>>, fileName |-> Undefined, contentType |-> "application/pdf"],
     [bytes |-> <<2>>, fileName |-> <<"s", ".", "p", "d", "f">>,
      contentType |-> "application/pdf"]}

\* ------------------------------------------------------------------- state
VARIABLES
    heap,       \* the SigningJob objects ever created, by job id
    jobs,       \* keys of the store's #jobs Map
    signs,      \* the handleSign request that created each job
    polls,      \* the handleGetStatus request of each poller
    lastResp,   \* the response sent by the step just taken, NoResp if none
    prev,       \* history: per job, the remote status the last returned poll fetched
    now,        \* Date.now(), in ticks
    swept       \* the eviction timer has fired at this instant

vars == <<heap, jobs, signs, polls, lastResp, prev, now, swept>>

AllIds == 1..Len(heap)

\* --------------------------------------------------------------- the store
NewJob(fileName, fileType) ==
    [fileName |-> fileName, fileType |-> fileType, status |-> "pending",
     createdAt |-> now, updatedAt |-> now,
     workflowId |-> UndefinedId, workflowStatus |-> Undefined,
     signedDocument |-> UndefinedBytes, signedFileName |-> Undefined,
     signedContentType |-> "undefined", errorMessage |-> Undefined]

\* faulty variant: createJob taking the id of the job made last, whose record
\* it overwrites
createJobReusesId(h, fileName, fileType) ==
    IF Len(h) = 0 THEN Append(h, NewJob(fileName, fileType))
    ELSE [h EXCEPT ![Len(h)] = NewJob(fileName, fileType)]

\* createJob: the new job gets the next id, which no job ever had (randomUUID)
createJob(h, fileName, fileType) == Append(h, NewJob(fileName, fileType))

\* faulty variant: setWorkflow writing through a job object that the store no
\* longer holds
setWorkflowUnguarded(h, id, workflowId, workflowStatus) ==
    IF id \notin AllIds THEN h
    ELSE [h EXCEPT ![id].workflowId = workflowId,
                   ![id].workflowStatus = workflowStatus,
                   ![id].updatedAt = now]

setWorkflow(h, id, workflowId, workflowStatus) ==
    IF id \notin jobs THEN h
    ELSE [h EXCEPT ![id].workflowId = workflowId,
                   ![id].workflowStatus = workflowStatus,
                   ![id].updatedAt = now]

\* faulty variant: setWorkflowStatus written as a setWorkflow without an id,
\* which clears the job's workflowId
setWorkflowStatusClearsId(h, id, workflowStatus) ==
    IF id \notin jobs THEN h
    ELSE [h EXCEPT ![id].workflowId = UndefinedId,
                   ![id].workflowStatus = workflowStatus,
                   ![id].updatedAt = now]

\* faulty variant: setWorkflowStatus that refreshes updatedAt only
setWorkflowStatusKeepsStatus(h, id, workflowStatus) ==
    IF id \notin jobs THEN h
    ELSE [h EXCEPT ![id].updatedAt = now]

\* faulty variant: setWorkflowStatus stamping the time of the write on every
\* job of the store
setWorkflowStatusTouchesAll(h, id, workflowStatus) ==
    IF id \notin jobs THEN h
    ELSE [k \in 1..Len(h) |->
            IF k = id
            THEN [h[k] EXCEPT !.workflowStatus = workflowStatus, !.updatedAt = now]
            ELSE [h[k] EXCEPT !.updatedAt = now]]

setWorkflowStatus(h, id, workflowStatus) ==
    IF id \notin jobs THEN h
    ELSE [h EXCEPT ![id].workflowStatus = workflowStatus,
                   ![id].updatedAt = now]

defaultSignedName(original) ==
    LET dotIdx == lastIndexOf(original, ".") IN
    IF dotIdx = -1 THEN original \o S_signedPdf
    ELSE SubSeq(original, 1, dotIdx) \o S_signed
         \o SubSeq(original, dotIdx + 1, Len(original))

\* faulty variant: completeJob that leaves updatedAt as it is
completeJobKeepsTime(h, id, payload) ==
    IF id \notin jobs THEN h
    ELSE [h EXCEPT ![id].status = "completed",
                   ![id].signedDocument = payload.bytes,
                   ![id].signedFileName =
                       IF payload.fileName # Undefined THEN payload.fileName
                       ELSE defaultSignedName(h[id].fileName),
                   ![id].signedContentType =
                       IF payload.contentType # "undefined" THEN payload.contentType
                       ELSE h[id].fileType]

\* faulty variant: completeJob that always derives the signed file name, ignoring the
\* one the download supplied
completeJobDerivesName(h, id, payload) ==
    IF id \notin jobs THEN h
    ELSE [h EXCEPT ![id].status = "completed",
                   ![id].updatedAt = now,
                   ![id].signedDocument = payload.bytes,
                   ![id].signedFileName = defaultSignedName(h[id].fileName),
                   ![id].signedContentType = payload.contentType]

completeJob(h, id, payload) ==
    IF id \notin jobs THEN h
    ELSE [h EXCEPT ![id].status = "completed",
                   ![id].updatedAt = now,
                   ![id].signedDocument = payload.bytes,
                   ![id].signedFileName =
                       IF payload.fileName # Undefined THEN payload.fileName
                       ELSE defaultSignedName(h[id].fileName),
                   ![id].signedContentType =
                       IF payload.contentType # "undefined" THEN payload.contentType
                       ELSE h[id].fileType]

\* faulty variant: failJob that adds the new message to the one the job already carries
failJobAppends(h, id, errorMessage) ==
    IF id \notin jobs THEN h
    ELSE [h EXCEPT ![id].status = "error",
                   ![id].updatedAt = now,
                   ![id].errorMessage =
                       IF @ = Undefined THEN errorMessage ELSE @ \o errorMessage]

failJob(h, id, errorMessage) ==
    IF id \notin jobs THEN h
    ELSE [h EXCEPT ![id].status = "error",
                   ![id].updatedAt = now,
                   ![id].errorMessage = errorMessage]

getJob(id) == IF id \in jobs THEN id ELSE NoJob

\* faulty variant: #evictExpired deleting a job as soon as its age reaches the ttl
evictExpiredAtTtl == {id \in jobs : ~(now - heap[id].updatedAt >= TTL)}

\* #evictExpired: the keys that survive a sweep at the current time
evictExpired == {id \in jobs : ~(now - heap[id].updatedAt > TTL)}

\* --------------------------------------------------------------- responses
\* history of a returned status query: what the query alone makes of a pending
\* job (`single`), the same for the queries that returned while it was in
\* flight (`peers`), whether it overlapped no other query of its job (`alone`)
\* and whether it fetched the status the poll before it fetched (`repeat`)
NoHistory == [single |-> <<>>, peers |-> {}, alone |-> FALSE, repeat |-> FALSE]

\* a response: the handler that sent it, the request it answers (the job of a
\* handleSign, the poller of a handleGetStatus), the HTTP status, the body,
\* the provider calls the request made with their outcomes, and its history
Response(handler, req, code, body, calls) ==
    [handler |-> handler, req |-> req, code |-> code, body |-> body, calls |-> calls,
     history |-> NoHistory]

NoResp == Response("none", 0, 0, [none |-> TRUE], <<>>)

\* no remote status was fetched
NoStatus == <<"none">>

\* status, signed document and error message of a job
Core(h, id) == <<h[id].status, h[id].signedDocument, h[id].errorMessage>>

ErrorBody(text) == [error |-> text]

\* the body of handleGetStatus's answer, read through the local `job`
StatusSummary(h, job) ==
    [jobId |-> job,
     status |-> h[job].status,
     updatedAt |-> h[job].updatedAt,
     fileName |-> h[job].fileName,
     signedFileName |-> h[job].signedFileName,
     workflowId |-> h[job].workflowId,
     workflowStatus |-> h[job].workflowStatus,
     error |-> h[job].errorMessage,
     downloadUrl |-> h[job].status = "completed"]

\* main.ts:171: reading job.id of an undefined `job` throws; the rejection is
\* turned into a 500 by the catch of Deno.serve's callback
StatusResponse(p, h, job, calls) ==
    IF job = NoJob
    THEN Response("handleGetStatus", p, 500, ErrorBody("Internal server error"), calls)
    ELSE Response("handleGetStatus", p, 200, StatusSummary(h, job), calls)

\* ------------------------------------------------------------- handleSign
SignState(pc, workflow, code, calls) ==
    [pc |-> pc, workflow |-> workflow, code |-> code, calls |-> calls]

NoWorkflow == [id |-> UndefinedId, workflowStatus |-> Undefined]

\* main.ts:41-45
getTextValue(value) ==
    IF value = Undefined THEN Undefined
    ELSE LET trimmed == trim(value) IN
         IF Len(trimmed) > 0 THEN trimmed ELSE Undefined

NoError == "none"

\* faulty variant: the validation of handleSign without the test of the
\* signer's email
ValidationErrorNoEmail(r) ==
    IF ~Includes(r.contentType, S_multipart)
    THEN "Request must be multipart/form-data"
    ELSE IF ~r.hasFile THEN "File field is required"
    ELSE IF /\ r.fileType # ""
            /\ r.fileType # "application/pdf"
            /\ ~endsWith(toLowerCase(r.fileName), S_dotPdf)
    THEN "Only PDF files are supported"
    ELSE NoError

\* main.ts:48-77: the text of the 400 answer an upload gets, NoError if none
ValidationError(r) ==
    IF ~Includes(r.contentType, S_multipart)
    THEN "Request must be multipart/form-data"
    ELSE IF ~r.hasFile THEN "File field is required"
    ELSE IF /\ r.fileType # ""
            /\ r.fileType # "application/pdf"
            /\ ~endsWith(toLowerCase(r.fileName), S_dotPdf)
    THEN "Only PDF files are supported"
    ELSE IF ~Truthy(getTextValue(r.signerEmail)) THEN "Signer email is required"
    ELSE NoError

\* main.ts:48-77: an upload that fails validation is answered 400 at once
SignReject(r) ==
    /\ ValidationError(r) # NoError
    /\ lastResp' = Response("handleSign", 0, 400, ErrorBody(ValidationError(r)), <<>>)
    /\ UNCHANGED <<heap, jobs, signs, polls, prev, now, swept>>

\* main.ts:93: a validated upload creates its job and calls createWorkflow
SignAccept(fileName, fileType) ==
    /\ Len(heap) < MaxJobs
    /\ heap' = createJob(heap, fileName, fileType)
    /\ jobs' = jobs \cup {Len(heap) + 1}
    /\ signs' = Append(signs, SignState("createWorkflow", NoWorkflow, 0,
                                        <<"createWorkflow">>))
    /\ prev' = Append(prev, NoStatus)
    /\ lastResp' = NoResp
    /\ UNCHANGED <<polls, now, swept>>

\* main.ts:93-96: the job of an upload that passed validation
Upload(r) ==
    /\ ValidationError(r) = NoError
    /\ SignAccept(IF r.fileName # <<>> THEN r.fileName ELSE S_documentPdf,
                  IF r.fileType # "" THEN r.fileType ELSE "application/pdf")

\* faulty variant: the catch of handleSign recording a fixed text instead of
\* the failure's own message
SignFailUnknownError(j, message) ==
    /\ heap' = failJob(heap, j, <<"U", "n", "k", "n", "o", "w", "n">>)
    /\ signs' = [signs EXCEPT ![j].pc = "done", ![j].code = 502,
                              ![j].calls = Append(@, "error")]
    /\ lastResp' = Response("handleSign", j, 502,
                            ErrorBody("Failed to create Goodflag workflow"),
                            signs'[j].calls)
    /\ UNCHANGED <<jobs, polls, prev, now, swept>>

\* faulty variant: the catch of handleSign answering 502 without failing
\* the job
SignFailKeepsPending(j, message) ==
    /\ signs' = [signs EXCEPT ![j].pc = "done", ![j].code = 502,
                              ![j].calls = Append(@, "error")]
    /\ lastResp' = Response("handleSign", j, 502,
                            ErrorBody("Failed to create Goodflag workflow"),
                            signs'[j].calls)
    /\ UNCHANGED <<heap, jobs, polls, prev, now, swept>>

\* main.ts:126-133: the catch of handleSign
SignFail(j, message) ==
    /\ heap' = failJob(heap, j, message)
    /\ signs' = [signs EXCEPT ![j].pc = "done", ![j].code = 502,
                              ![j].calls = Append(@, "error")]
    /\ lastResp' = Response("handleSign", j, 502,
                            ErrorBody("Failed to create Goodflag workflow"),
                            signs'[j].calls)
    /\ UNCHANGED <<jobs, polls, prev, now, swept>>

\* faulty variant: the upload called before the workflow is recorded in the job
CreateWorkflowOkNoRecord(j, workflowId, workflowStatus) ==
    /\ j \in AllIds /\ signs[j].pc = "createWorkflow"
    /\ signs' = [signs EXCEPT ![j].pc = "upload",
                              ![j].workflow = [id |-> workflowId,
                                               workflowStatus |-> workflowStatus],
                              ![j].calls = Append(@, "uploadWorkflowDocument")]
    /\ lastResp' = NoResp
    /\ UNCHANGED <<heap, jobs, polls, prev, now, swept>>

CreateWorkflowOk(j, workflowId, workflowStatus) ==
    /\ j \in AllIds /\ signs[j].pc = "createWorkflow"
    /\ heap' = setWorkflow(heap, j, workflowId, workflowStatus)
    /\ signs' = [signs EXCEPT ![j].pc = "upload",
                              ![j].workflow = [id |-> workflowId,
                                               workflowStatus |-> workflowStatus],
                              ![j].calls = Append(@, "uploadWorkflowDocument")]
    /\ lastResp' = NoResp
    /\ UNCHANGED <<jobs, polls, prev, now, swept>>

CreateWorkflowFail(j, message) ==
    /\ j \in AllIds /\ signs[j].pc = "createWorkflow"
    /\ SignFail(j, message)

\* main.ts:104-115: the signature field is placed only for a document id
UploadOk(j, hasDocumentId) ==
    /\ j \in AllIds /\ signs[j].pc = "upload"
    /\ signs' = [signs EXCEPT
                   ![j].pc = IF hasDocumentId THEN "field" ELSE "start",
                   ![j].calls = Append(@, IF hasDocumentId
                                          THEN "applyDefaultSignatureField"
                                          ELSE "startWorkflow")]
    /\ lastResp' = NoResp
    /\ UNCHANGED <<heap, jobs, polls, prev, now, swept>>

UploadFail(j, message) ==
    /\ j \in AllIds /\ signs[j].pc = "upload"
    /\ SignFail(j, message)

\* faulty variant: a failed placement of the signature field treated like the
\* failure of any other provider step
FieldDoneFatal(j, ok) ==
    /\ j \in AllIds /\ signs[j].pc = "field"
    /\ IF ok
       THEN /\ signs' = [signs EXCEPT ![j].pc = "start",
                                      ![j].calls = Append(Append(@, "ok"), "startWorkflow")]
            /\ lastResp' = NoResp
            /\ UNCHANGED <<heap, jobs, polls, prev, now, swept>>
       ELSE SignFail(j, <<"5", "0", "0">>)

\* main.ts:106-114: success and failure of the placement both go on to start
FieldDone(j, ok) ==
    /\ j \in AllIds /\ signs[j].pc = "field"
    /\ signs' = [signs EXCEPT ![j].pc = "start",
                              ![j].calls = Append(Append(@, IF ok THEN "ok" ELSE "warn"),
                                                  "startWorkflow")]
    /\ lastResp' = NoResp
    /\ UNCHANGED <<heap, jobs, polls, prev, now, swept>>

\* main.ts:123: startedWorkflow.workflowStatus ?? workflow.workflowStatus ?? "started"
ResolvedStatus(started, created) ==
    IF started # Undefined THEN started
    ELSE IF created # Undefined THEN created ELSE S_started

StartOk(j, workflowStatus) ==
    /\ j \in AllIds /\ signs[j].pc = "start"
    /\ heap' = IF Truthy(workflowStatus)
               THEN setWorkflowStatus(heap, j, workflowStatus) ELSE heap
    /\ signs' = [signs EXCEPT ![j].pc = "done", ![j].code = 200]
    /\ lastResp' = Response("handleSign", j, 200,
                            [jobId |-> j,
                             status |-> heap'[j].status,
                             workflowId |-> signs[j].workflow.id,
                             workflowStatus |->
                                 ResolvedStatus(workflowStatus,
                                                signs[j].workflow.workflowStatus),
                             fileName |-> heap'[j].fileName],
                            signs[j].calls)
    /\ UNCHANGED <<jobs, polls, prev, now, swept>>

StartFail(j, message) ==
    /\ j \in AllIds /\ signs[j].pc = "start"
    /\ SignFail(j, message)

\* the job ids a client has been told: only the 200 answer of handleSign
\* carries the (random) job id
Disclosed == {j \in AllIds : signs[j].code = 200}

\* --------------------------------------------------------- handleGetStatus
\* a poller's request: its position, the id asked for, the local `job`
\* reference, the workflowStatus of the local `workflow`, the provider calls
\* made so far with their outcomes, and the history fields `peers` and `alone`
IdlePoll == [pc |-> "idle", jobId |-> UnknownId, job |-> NoJob,
             workflow |-> NoStatus, log |-> <<>>, peers |-> {}, alone |-> FALSE]

InFlight(q, jobId) == polls[q].pc # "idle" /\ polls[q].jobId = jobId

\* the handler returns without having called the provider
RespondAtOnce(p, h, job) ==
    /\ lastResp' = StatusResponse(p, h, job, <<>>)
    /\ UNCHANGED <<polls, prev>>

\* the handler returns after its refresh: its answer is built from the local
\* `job`; `fetched` is the status it fetched and `single` what it alone makes
\* of a pending job
Respond(p, h, job, log, fetched, single) ==
    LET jobId == polls[p].jobId IN
    /\ polls' = [q \in Pollers |->
                   IF q = p THEN IdlePoll
                   ELSE IF InFlight(q, jobId)
                   THEN [polls[q] EXCEPT !.peers = @ \cup {single}, !.alone = FALSE]
                   ELSE polls[q]]
    /\ prev' = [prev EXCEPT ![jobId] = fetched]
    /\ lastResp' = [StatusResponse(p, h, job, log) EXCEPT
                      !.history = [single |-> single,
                                   peers |-> polls[p].peers,
                                   alone |-> polls[p].alone,
                                   repeat |-> fetched # NoStatus /\ fetched = prev[jobId]]]

\* faulty variant: FailedStatuses without "canceled"
FailedStatusesShort == {S_stopped, S_refused, S_failed}

\* main.ts:161
FailedStatuses == {S_stopped, S_refused, S_canceled, S_failed}

\* faulty variant: the guard of the refresh without the test of the status
NeedsRefreshAnyStatus(h, job) == h[job].workflowId # UndefinedId

\* main.ts:143: the guard of the refresh
NeedsRefresh(h, job) ==
    h[job].status = "pending" /\ h[job].workflowId # UndefinedId

\* main.ts:138-145: look the job up; call fetchWorkflow only for a pending job
\* that has a workflow id
PollStart(p, jobId) ==
    /\ polls[p].pc = "idle"
    /\ LET job == getJob(jobId) IN
       IF job = NoJob
       THEN /\ lastResp' = Response("handleGetStatus", p, 404,
                                    ErrorBody("Signing job not found"), <<>>)
            /\ UNCHANGED <<polls, prev>>
       ELSE IF NeedsRefresh(heap, job)
       THEN /\ polls' = [q \in Pollers |->
                           IF q = p
                           THEN [pc |-> "fetch", jobId |-> jobId, job |-> job,
                                 workflow |-> NoStatus, log |-> <<"fetchWorkflow">>,
                                 peers |-> {},
                                 alone |-> ~\E r \in Pollers : InFlight(r, jobId)]
                           ELSE IF InFlight(q, jobId)
                           THEN [polls[q] EXCEPT !.alone = FALSE]
                           ELSE polls[q]]
            /\ lastResp' = NoResp
            /\ UNCHANGED prev
       ELSE RespondAtOnce(p, heap, job)
    /\ UNCHANGED <<heap, jobs, signs, now, swept>>

\* main.ts:150: workflow.workflowStatus?.toLowerCase()
Normalized(workflowStatus) ==
    IF workflowStatus = Undefined THEN Undefined ELSE toLowerCase(workflowStatus)

Unchanged == <<"pending", UndefinedBytes, Undefined>>

\* main.ts:146-165: fetchWorkflow answered with `workflowStatus`
FetchOk(p, workflowStatus) ==
    /\ polls[p].pc = "fetch"
    /\ LET jobId == polls[p].jobId
           log == Append(polls[p].log, "ok")
           h1 == IF Truthy(workflowStatus)
                 THEN setWorkflowStatus(heap, polls[p].job, workflowStatus)
                 ELSE heap
           job1 == IF Truthy(workflowStatus) THEN getJob(jobId) ELSE polls[p].job
           normalizedStatus == Normalized(workflowStatus)
           errorMessage == S_Workflow \o workflowStatus
       IN
       IF normalizedStatus = S_finished
       THEN IF job1 = NoJob
            THEN \* job.workflowId of undefined throws into the catch
                 /\ heap' = h1
                 /\ Respond(p, h1, job1, log, workflowStatus, Unchanged)
            ELSE /\ heap' = h1
                 /\ polls' = [polls EXCEPT ![p].pc = "download",
                                           ![p].job = job1,
                                           ![p].workflow = workflowStatus,
                                           ![p].log = Append(log, "downloadWorkflowDocuments")]
                 /\ lastResp' = NoResp
                 /\ UNCHANGED prev
       ELSE IF Truthy(normalizedStatus) /\ normalizedStatus \in FailedStatuses
       THEN IF job1 = NoJob
            THEN \* job.id of undefined throws into the catch
                 /\ heap' = h1
                 /\ Respond(p, h1, job1, log, workflowStatus,
                            <<"error", UndefinedBytes, errorMessage>>)
            ELSE /\ heap' = failJob(h1, job1, errorMessage)
                 /\ Respond(p, heap', getJob(jobId), log, workflowStatus,
                            <<"error", UndefinedBytes, errorMessage>>)
       ELSE /\ heap' = h1
            /\ Respond(p, h1, job1, log, workflowStatus, Unchanged)
    /\ UNCHANGED <<jobs, signs, now, swept>>

\* faulty variant: a failed fetchWorkflow handled like a failed upload: the job is failed
FetchFailFailsJob(p) ==
    /\ polls[p].pc = "fetch"
    /\ heap' = failJob(heap, polls[p].job, S_Workflow)
    /\ Respond(p, heap', polls[p].job, Append(polls[p].log, "error"), NoStatus, Unchanged)
    /\ UNCHANGED <<jobs, signs, now, swept>>

\* main.ts:166-168: fetchWorkflow threw; `job` is still the object read first
FetchFail(p) ==
    /\ polls[p].pc = "fetch"
    /\ Respond(p, heap, polls[p].job, Append(polls[p].log, "error"), NoStatus, Unchanged)
    /\ UNCHANGED <<heap, jobs, signs, now, swept>>

\* faulty variant: the downloaded document is not stored: completeJob is not
\* called
DownloadOkNoComplete(p, signed) ==
    /\ polls[p].pc = "download"
    /\ Respond(p, heap, getJob(polls[p].jobId), Append(polls[p].log, "ok"),
               polls[p].workflow, <<"completed", signed.bytes, Undefined>>)
    /\ UNCHANGED <<heap, jobs, signs, now, swept>>

\* main.ts:152-158: the download answered; complete the job and read it back
DownloadOk(p, signed) ==
    /\ polls[p].pc = "download"
    /\ heap' = completeJob(heap, polls[p].job, signed)
    /\ Respond(p, heap', getJob(polls[p].jobId), Append(polls[p].log, "ok"),
               polls[p].workflow, <<"completed", signed.bytes, Undefined>>)
    /\ UNCHANGED <<jobs, signs, now, swept>>

\* main.ts:166-168: the download threw
DownloadFail(p) ==
    /\ polls[p].pc = "download"
    /\ Respond(p, heap, polls[p].job, Append(polls[p].log, "error"),
               polls[p].workflow, Unchanged)
    /\ UNCHANGED <<heap, jobs, signs, now, swept>>

\* ---------------------------------------------------------- handleDownload
\* faulty variant: handleDownload serving whatever document the job holds,
\* without the test of its status
DownloadResponseAnyStatus(jobId) ==
    LET job == getJob(jobId) IN
    IF job = NoJob
    THEN Response("handleDownload", jobId, 404, ErrorBody("Signing job not found"), <<>>)
    ELSE IF heap[job].signedDocument = UndefinedBytes
    THEN Response("handleDownload", jobId, 409,
                  ErrorBody("Signed document is not available yet"), <<>>)
    ELSE Response("handleDownload", jobId, 200,
                  [bytes |-> heap[job].signedDocument,
                   contentType |-> heap[job].signedContentType,
                   fileName |-> heap[job].signedFileName],
                  <<>>)

\* main.ts:184-213
DownloadResponse(jobId) ==
    LET job == getJob(jobId) IN
    IF job = NoJob
    THEN Response("handleDownload", jobId, 404, ErrorBody("Signing job not found"), <<>>)
    ELSE IF heap[job].status # "completed" \/ heap[job].signedDocument = UndefinedBytes
    THEN Response("handleDownload", jobId, 409,
                  ErrorBody("Signed document is not available yet"), <<>>)
    ELSE Response("handleDownload", jobId, 200,
                  [bytes |-> heap[job].signedDocument,
                   contentType |->
                       IF heap[job].signedContentType \notin {"undefined", ""}
                       THEN heap[job].signedContentType
                       ELSE IF heap[job].fileType # "" THEN heap[job].fileType
                       ELSE "application/pdf",
                   fileName |->
                       IF heap[job].signedFileName # Undefined
                       THEN heap[job].signedFileName
                       ELSE heap[job].fileName],
                  <<>>)

Download(jobId) ==
    /\ lastResp' = DownloadResponse(jobId)
    /\ UNCHANGED <<heap, jobs, signs, polls, prev, now, swept>>

\* ------------------------------------------------------- time and eviction
\* faulty variant: the timer firing at every other multiple of the ttl only
SweepDueEveryOther == now > 0 /\ now % (2 * TTL) = 0 /\ ~swept

\* the timer of goodflag.ts:289 fires every TTL ticks
SweepDue == now > 0 /\ now % TTL = 0 /\ ~swept

\* the clock advances by one tick, up to `max`; the timer's callback is due
\* before time moves past its instant
TickTo(max) ==
    /\ now < max
    /\ ~SweepDue
    /\ now' = now + 1
    /\ swept' = FALSE
    /\ lastResp' = NoResp
    /\ UNCHANGED <<heap, jobs, signs, polls, prev>>

Tick == TickTo(MaxTime)

\* the same over the longer run of the specification SpecTimer
TickLong == TickTo(LongTime)

Sweep ==
    /\ SweepDue
    /\ jobs' = evictExpired
    /\ swept' = TRUE
    /\ lastResp' = NoResp
    /\ UNCHANGED <<heap, signs, polls, prev, now>>

\* ------------------------------------------------------------ specification
Init ==
    /\ heap = <<>>
    /\ jobs = {}
    /\ signs = <<>>
    /\ polls = [p \in Pollers |-> IdlePoll]
    /\ lastResp = NoResp
    /\ prev = <<>>
    /\ now = 0
    /\ swept = FALSE

\* the steps of handleSign, the eviction timer and the clock
SignStep ==
    \/ \E r \in Uploads : Upload(r)
    \/ \E j \in JobIds, w \in WorkflowIds, s \in StartStatuses : CreateWorkflowOk(j, w, s)
    \/ \E j \in JobIds, m \in ErrorTexts : CreateWorkflowFail(j, m)
    \/ \E j \in JobIds, d \in BOOLEAN : UploadOk(j, d)
    \/ \E j \in JobIds, m \in ErrorTexts : UploadFail(j, m)
    \/ \E j \in JobIds, ok \in BOOLEAN : FieldDone(j, ok)
    \/ \E j \in JobIds, s \in StartStatuses : StartOk(j, s)
    \/ \E j \in JobIds, m \in ErrorTexts : StartFail(j, m)

\* the steps the pollers `ps` take once their status query has started, the
\* provider answering with a status of `statuses` and a document of `results`
PollStep(ps, statuses, results) ==
    \/ \E p \in ps, s \in statuses : FetchOk(p, s)
    \/ \E p \in ps : FetchFail(p)
    \/ \E p \in ps, d \in results : DownloadOk(p, d)
    \/ \E p \in ps : DownloadFail(p)

\* Clients ask for the job ids they were given (the id is a random UUID that
\* only the 200 answer of handleSign carries) and for ids that do not exist.
Next ==
    \/ SignStep
    \/ PollStep(Pollers, FewStatuses, FewDownloads)
    \/ \E p \in Pollers, id \in Disclosed \cup {UnknownId} : PollStart(p, id)
    \/ \E id \in Disclosed \cup {UnknownId} : Download(id)
    \/ Tick
    \/ Sweep

Spec == Init /\ [][Next]_vars

\* One status query at a time, the provider answering with every status and
\* every document; clients ask for any job id, also one that no answer has
\* disclosed yet.
NextOne ==
    \/ SignStep
    \/ PollStep({1}, RemoteStatuses, DownloadResults)
    \/ \E id \in AllIds \cup {UnknownId} : PollStart(1, id)
    \/ \E id \in AllIds \cup {UnknownId} : Download(id)
    \/ Tick
    \/ Sweep

SpecOne == Init /\ [][NextOne]_vars

\* A longer run of the clock, with one status query at a time for the job ids
\* that were disclosed: a job lives through several sweeps of the timer.
NextTimer ==
    \/ SignStep
    \/ PollStep({1}, FewStatuses, FewDownloads)
    \/ \E id \in Disclosed \cup {UnknownId} : PollStart(1, id)
    \/ TickLong
    \/ Sweep

SpecTimer == Init /\ [][NextTimer]_vars

\* Clients that also send uploads that fail validation, with one status query
\* at a time for the job ids that were disclosed.
NextUpload ==
    \/ SignStep
    \/ \E r \in Uploads : SignReject(r)
    \/ PollStep({1}, FewStatuses, FewDownloads)
    \/ \E id \in Disclosed \cup {UnknownId} : PollStart(1, id)
    \/ \E id \in Disclosed \cup {UnknownId} : Download(id)
    \/ Tick
    \/ Sweep

SpecUpload == Init /\ [][NextUpload]_vars

\* Status queries and downloads of one job whose upload, of a file of any of
\* the original names, was answered 200 at the start.
InitNames ==
    /\ now = 0
    /\ swept = FALSE
    /\ jobs = {1}
    /\ \E n \in OriginalNames, w \in WorkflowIds :
          /\ heap = setWorkflowStatus(
                        setWorkflow(createJob(<<>>, n, "application/pdf"), 1, w, Undefined),
                        1, S_started)
          /\ signs = <<SignState("done", [id |-> w, workflowStatus |-> Undefined], 200,
                                 <<"createWorkflow", "uploadWorkflowDocument",
                                   "startWorkflow">>)>>
    /\ polls = [p \in Pollers |-> IdlePoll]
    /\ lastResp = NoResp
    /\ prev = <<NoStatus>>

NextNames ==
    \/ PollStep({1}, FewStatuses, FewDownloads)
    \/ \E id \in Disclosed : PollStart(1, id)
    \/ \E id \in Disclosed : Download(id)

SpecNames == InitNames /\ [][NextNames]_vars

\* Two jobs in the store: the upload of job 1 was answered 200 at the start and
\* that of job 2 has created its job and awaits createWorkflow; the uploads go
\* on, clients poll and download the job ids they were told. The provider
\* gives the second workflow an id other than the first's.
InitPair ==
    /\ now = 0
    /\ swept = FALSE
    /\ jobs = {1, 2}
    /\ heap = createJob(
                  setWorkflowStatus(
                      setWorkflow(createJob(<<>>, S_reportPdf, "application/pdf"),
                                  1, "wfl_1", Undefined),
                      1, S_started),
                  S_README, "application/pdf")
    /\ signs = <<SignState("done", [id |-> "wfl_1", workflowStatus |-> Undefined], 200,
                           <<"createWorkflow", "uploadWorkflowDocument",
                             "startWorkflow">>),
                 SignState("createWorkflow", NoWorkflow, 0, <<"createWorkflow">>)>>
    /\ polls = [p \in Pollers |-> IdlePoll]
    /\ lastResp = NoResp
    /\ prev = <<NoStatus, NoStatus>>

\* the steps of handleSign after createJob, for the jobs `ids`, the provider
\* naming a new workflow by an id of `wids`
SignLater(ids, wids) ==
    \/ \E j \in ids, w \in wids, s \in StartStatuses : CreateWorkflowOk(j, w, s)
    \/ \E j \in ids, m \in ErrorTexts : CreateWorkflowFail(j, m)
    \/ \E j \in ids, d \in BOOLEAN : UploadOk(j, d)
    \/ \E j \in ids, m \in ErrorTexts : UploadFail(j, m)
    \/ \E j \in ids, ok \in BOOLEAN : FieldDone(j, ok)
    \/ \E j \in ids, s \in StartStatuses : StartOk(j, s)
    \/ \E j \in ids, m \in ErrorTexts : StartFail(j, m)

NextPair ==
    \/ SignLater(AllIds, WorkflowIds \ {heap[1].workflowId})
    \/ PollStep({1}, FewStatuses, FewDownloads)
    \/ \E id \in Disclosed \cup {UnknownId} : PollStart(1, id)
    \/ \E id \in Disclosed \cup {UnknownId} : Download(id)
    \/ Tick
    \/ Sweep

SpecPair == InitPair /\ [][NextPair]_vars

\* The remote workflow is finished and stays so: every fetchWorkflow that
\* answers reports "Finished". The client polls the job it was told of
\* (App.tsx:35-53: on an interval, until the status is completed or error);
\* provider calls can fail at any time. A poll that is due is made, and a
\* provider call that can only succeed from some time on does succeed.
FinishedOnly == {S_Finished}

PollLive == \E id \in Disclosed : PollStart(1, id)
FetchOkLive == \E s \in FinishedOnly : FetchOk(1, s)
DownloadOkLive == \E d \in FewDownloads : DownloadOk(1, d)

NextLive ==
    \/ PollLive
    \/ FetchOkLive
    \/ FetchFail(1)
    \/ DownloadOkLive
    \/ DownloadFail(1)
    \/ Tick
    \/ Sweep

SpecLive ==
    /\ InitNames
    /\ [][NextLive]_vars
    /\ WF_vars(PollLive)
    /\ WF_vars(FetchOkLive)
    /\ WF_vars(DownloadOkLive)

\* ================================================================== claims
\* two strings that differ at most in the case of their letters
EqIgnoreCase(a, b) ==
    /\ Len(a) = Len(b)
    /\ \A i \in 1..Len(a) :
          \/ a[i] = b[i]
          \/ \E k \in 1..Len(UpperChars) : {a[i], b[i]} = {UpperChars[k], LowerChars[k]}

IsFinished(ws) == ws # Undefined /\ EqIgnoreCase(ws, S_finished)

IsFailed(ws) ==
    /\ ws # Undefined
    /\ \E f \in {S_stopped, S_refused, S_canceled, S_failed} : EqIgnoreCase(ws, f)

\* the provider's statuses by what the claims say of them
FinishedStatuses == {ws \in RemoteStatuses : IsFinished(ws)}
RefusalStatuses == {ws \in RemoteStatuses : IsFailed(ws)}
OtherStatuses ==
    {ws \in RemoteStatuses : Truthy(ws) /\ ~IsFinished(ws) /\ ~IsFailed(ws)}

Terminal == {"completed", "error"}

IsStatusResponse == lastResp.handler = "handleGetStatus"

\* C1: a job whose status is completed or error keeps that status in every
\* later step, whichever store mutation the step calls for it.
C1_StatusMonotonic ==
    [][\A j \in AllIds :
          heap[j].status \in Terminal => heap'[j].status = heap[j].status]_vars

\* C2: every job in the store has a signedDocument if and only if its status
\* is completed.
C2_SignedDocumentIffCompleted ==
    \A j \in jobs :
        (heap[j].signedDocument # UndefinedBytes) <=> (heap[j].status = "completed")

\* C3: every job in the store has an errorMessage if and only if its status
\* is error.
C3_ErrorMessageIffError ==
    \A j \in jobs :
        (heap[j].errorMessage # Undefined) <=> (heap[j].status = "error")

\* C4: a status query that fetches a status equal to "finished" up to case
\* goes on to download (leaving status, document and error message as they
\* are until then), and when the download succeeds the job is completed with
\* exactly the downloaded bytes and content type, and with the file name of
\* the download if it has one, else the name derived from the original one.
C4_FinishedCompletes ==
    [][\A p \in Pollers :
          LET j == polls[p].jobId IN
          /\ \A ws \in FinishedStatuses :
                (polls[p].pc = "fetch" /\ polls'[p].pc # "fetch" /\ j \in jobs
             /\ FetchOk(p, ws)) =>
                    /\ polls'[p].pc = "download"
                    /\ polls'[p].log =
                           <<"fetchWorkflow", "ok", "downloadWorkflowDocuments">>
                    /\ Core(heap', j) = Core(heap, j)
          /\ \A d \in DownloadResults :
                (polls[p].pc = "download" /\ polls'[p].pc = "idle" /\ j \in jobs
                   /\ DownloadOk(p, d)) =>
                    /\ IsFinished(polls[p].workflow)
                    /\ heap'[j].status = "completed"
                    /\ heap'[j].signedDocument = d.bytes
                    /\ heap'[j].signedContentType = d.contentType
                    /\ heap'[j].signedFileName =
                           IF d.fileName # Undefined THEN d.fileName
                           ELSE defaultSignedName(heap[j].fileName)]_vars

\* C4 happens: a query fetched "Finished", downloaded a document that has a
\* file name, and answered with the completed job.
C4_Witness ==
    /\ IsStatusResponse /\ lastResp.code = 200
    /\ lastResp.calls = <<"fetchWorkflow", "ok", "downloadWorkflowDocuments", "ok">>
    /\ lastResp.body.status = "completed"
    /\ lastResp.body.workflowStatus = S_Finished
    /\ lastResp.body.signedFileName = <<"s", ".", "p", "d", "f">>
    /\ heap[lastResp.body.jobId].signedDocument = <<2>>

\* C5: a status query that fetches stopped, refused, canceled or failed (up
\* to case) makes the job an error whose message contains the fetched status,
\* and returns without a download: the signed document is left as it was.
C5_FailedStatusFailsJob ==
    [][\A p \in Pollers : \A ws \in RefusalStatuses :
          LET j == polls[p].jobId IN
          (polls[p].pc = "fetch" /\ polls'[p].pc # "fetch" /\ j \in jobs
             /\ FetchOk(p, ws)) =>
              /\ heap'[j].status = "error"
              /\ Includes(heap'[j].errorMessage, ws)
              /\ heap'[j].signedDocument = heap[j].signedDocument
              /\ polls'[p].pc = "idle"
              /\ lastResp'.calls = <<"fetchWorkflow", "ok">>]_vars

\* C5 happens: a query fetched "canceled" and answered with the failed job,
\* which holds no signed document.
C5_Witness ==
    /\ IsStatusResponse /\ lastResp.code = 200
    /\ lastResp.calls = <<"fetchWorkflow", "ok">>
    /\ lastResp.body.status = "error"
    /\ lastResp.body.error = S_Workflow \o S_canceled
    /\ heap[lastResp.body.jobId].signedDocument = UndefinedBytes

\* C6: a status query that fetches a non-empty status that is neither
\* finished nor stopped, refused, canceled or failed stores it as the job's
\* workflowStatus and changes neither status, signed document nor error
\* message: a pending job stays pending with both absent.
C6_OtherStatusStaysPending ==
    [][\A p \in Pollers : \A ws \in OtherStatuses :
          LET j == polls[p].jobId IN
          (polls[p].pc = "fetch" /\ polls'[p].pc # "fetch" /\ j \in jobs
             /\ FetchOk(p, ws)) =>
              /\ heap'[j].workflowStatus = ws
              /\ Core(heap', j) = Core(heap, j)
              /\ heap[j].status = "pending" =>
                     Core(heap', j) = <<"pending", UndefinedBytes, Undefined>>
              /\ lastResp'.calls = <<"fetchWorkflow", "ok">>]_vars

\* C6 happens: a query of a job whose workflow gave no status at creation and
\* start fetched "started" and answered with the pending job.
C6_Witness ==
    /\ IsStatusResponse /\ lastResp.code = 200
    /\ lastResp.calls = <<"fetchWorkflow", "ok">>
    /\ lastResp.body.status = "pending"
    /\ lastResp.body.workflowStatus = S_started
    /\ lastResp.body.error = Undefined
    /\ heap[lastResp.body.jobId].signedDocument = UndefinedBytes
    /\ heap[lastResp.body.jobId].updatedAt > heap[lastResp.body.jobId].createdAt

\* C7: when fetchWorkflow or the download fails, the step changes no job and
\* the store keeps its jobs (a pending job stays pending, nothing is set),
\* and the query answers 200 with the summary of the job.
C7_ProviderFailureSwallowed ==
    [][\A p \in Pollers :
          (FetchFail(p) \/ DownloadFail(p)) =>
              /\ heap' = heap
              /\ jobs' = jobs
              /\ lastResp'.handler = "handleGetStatus"
              /\ lastResp'.code = 200
              /\ lastResp'.body = StatusSummary(heap, polls[p].jobId)]_vars

\* C7 happens: the download of a finished workflow failed, and the query
\* answered with the job, still pending, without document or error message.
C7_Witness ==
    /\ IsStatusResponse /\ lastResp.code = 200
    /\ lastResp.calls = <<"fetchWorkflow", "ok", "downloadWorkflowDocuments", "error">>
    /\ lastResp.body.status = "pending"
    /\ lastResp.body.error = Undefined
    /\ lastResp.body.signedFileName = Undefined
    /\ lastResp.body.downloadUrl = FALSE
    /\ heap[lastResp.body.jobId].signedDocument = UndefinedBytes

\* C8: a status query for a job in the store that is completed, is error or
\* has no workflowId answers at once with the summary of the job: no provider
\* call is made, and no job, the store's key set and no poller change.
C8_NoRefreshUnlessPendingWithWorkflow ==
    [][\A p \in Pollers : \A id \in AllIds :
          (/\ id \in jobs
           /\ heap[id].status \in Terminal \/ heap[id].workflowId = UndefinedId
           /\ PollStart(p, id)) =>
              /\ heap' = heap
              /\ jobs' = jobs
              /\ polls' = polls
              /\ lastResp'.handler = "handleGetStatus"
              /\ lastResp'.code = 200
              /\ lastResp'.calls = <<>>
              /\ lastResp'.body = StatusSummary(heap, id)]_vars

\* C8 happens: a query of a pending job that has no workflowId yet was
\* answered without a provider call.
C8_Witness ==
    /\ IsStatusResponse /\ lastResp.code = 200
    /\ lastResp.calls = <<>>
    /\ lastResp.body.status = "pending"
    /\ lastResp.body.workflowId = UndefinedId

\* C9 as stated: a status query that overlaps no other query of its job and
\* fetches the status the poll before it fetched changes neither status,
\* signed document nor error message, in its fetch step and in its download
\* step.
C9_RepeatedPollChangesNothing ==
    [][\A p \in Pollers :
          LET j == polls[p].jobId IN
          (polls[p].pc # "idle" /\ polls'[p].pc # polls[p].pc /\ j \in jobs
             /\ polls[p].alone
             /\ \/ \E ws \in FewStatuses : ws = prev[j] /\ FetchOk(p, ws)
                \/ /\ polls[p].workflow = prev[j]
                   /\ \E d \in FewDownloads : DownloadOk(p, d)) =>
              Core(heap', j) = Core(heap, j)]_vars

\* C9 amended: a status query that fetches the status the poll before it
\* fetched, a status other than finished, changes neither status, signed
\* document nor error message; when the status is finished the query
\* downloads again, and a download that succeeds completes the job.
C9_RepeatedPollIdempotentUnlessFinished ==
    [][\A p \in Pollers :
          LET j == polls[p].jobId IN
          /\ \A ws \in FewStatuses \ FinishedStatuses :
                (polls[p].pc = "fetch" /\ polls'[p].pc # "fetch" /\ j \in jobs
                   /\ ws = prev[j] /\ FetchOk(p, ws)) =>
                    Core(heap', j) = Core(heap, j)
          /\ \A ws \in FewStatuses \cap FinishedStatuses :
                (polls[p].pc = "fetch" /\ polls'[p].pc # "fetch" /\ j \in jobs
                   /\ ws = prev[j] /\ FetchOk(p, ws)) =>
                    /\ polls'[p].pc = "download"
                    /\ Core(heap', j) = Core(heap, j)
          /\ \A d \in FewDownloads :
                (polls[p].pc = "download" /\ polls'[p].pc = "idle" /\ j \in jobs
                   /\ polls[p].workflow = prev[j] /\ DownloadOk(p, d)) =>
                    Core(heap', j) = <<"completed", d.bytes, heap[j].errorMessage>>]_vars

\* C9 happens: a query that overlapped no other fetched "started" as the poll
\* before it had, and answered with the job still pending.
C9_Witness ==
    /\ IsStatusResponse /\ lastResp.code = 200
    /\ lastResp.history.repeat /\ lastResp.history.alone
    /\ lastResp.body.workflowStatus = S_started
    /\ Core(heap, lastResp.body.jobId) = <<"pending", UndefinedBytes, Undefined>>

\* C10: when a status query returns that other queries of the same job
\* overlapped, the job's status, signed document and error message are those
\* that one of these queries alone makes of the pending job.
C10_RaceEndsAsSingleQuery ==
    (/\ IsStatusResponse /\ lastResp.code = 200
     /\ lastResp.history.peers # {}
     /\ lastResp.body.jobId \in jobs) =>
        Core(heap, lastResp.body.jobId)
            \in {lastResp.history.single} \cup lastResp.history.peers

\* C11: when createWorkflow, uploadWorkflowDocument or startWorkflow fails,
\* the request makes no further provider call, its job (if still stored)
\* gets status error and the failure's text as errorMessage, the caller is
\* answered 502 once, and the finished request takes no further step.
C11_ProviderFailureAbortsUpload ==
    [][\A j \in AllIds :
          /\ \A m \in ErrorTexts :
                (signs[j].pc \in {"createWorkflow", "upload", "start"}
                   /\ signs'[j].pc = "done" /\ signs'[j].code = 502
                   /\ (CreateWorkflowFail(j, m) \/ UploadFail(j, m) \/ StartFail(j, m))) =>
                    /\ signs'[j].calls = Append(signs[j].calls, "error")
                    /\ lastResp'.handler = "handleSign"
                    /\ lastResp'.req = j
                    /\ lastResp'.code = 502
                    /\ j \in jobs =>
                          /\ heap'[j].status = "error"
                          /\ heap'[j].errorMessage = m
          /\ signs[j].pc = "done" =>
                /\ signs'[j] = signs[j]
                /\ ~(lastResp'.handler = "handleSign" /\ lastResp'.req = j)]_vars

\* C11 happens: the upload of the document failed after createWorkflow had
\* succeeded; startWorkflow was never called, the job is an error with the
\* failure's text, and the answer is 502.
C11_Witness ==
    /\ lastResp.handler = "handleSign" /\ lastResp.code = 502
    /\ lastResp.calls = <<"createWorkflow", "uploadWorkflowDocument", "error">>
    /\ heap[lastResp.req].status = "error"
    /\ heap[lastResp.req].errorMessage \in ErrorTexts
    /\ heap[lastResp.req].workflowId # UndefinedId

\* the provider calls of a request include a failed placement of the field
FieldWarned(calls) == \E i \in 1..Len(calls) : calls[i] = "warn"

\* C12: a failed placement of the signature field changes no job and goes on
\* to call startWorkflow; when that start succeeds the upload is answered 200
\* with the job's id and its status, which is pending, and the job holds no
\* error message.
C12_FieldFailureNotFatal ==
    [][\A j \in AllIds :
          /\ (signs[j].pc = "field" /\ signs'[j].pc # "field" /\ FieldDone(j, FALSE)) =>
                /\ heap' = heap
                /\ jobs' = jobs
                /\ signs'[j].pc = "start"
                /\ signs'[j].calls[Len(signs'[j].calls)] = "startWorkflow"
          /\ \A s \in StartStatuses :
                (signs[j].pc = "start" /\ signs'[j].pc = "done"
                   /\ FieldWarned(signs[j].calls) /\ StartOk(j, s)) =>
                    /\ lastResp'.handler = "handleSign"
                    /\ lastResp'.code = 200
                    /\ lastResp'.body.jobId = j
                    /\ lastResp'.body.status = "pending"
                    /\ heap'[j].status = "pending"
                    /\ heap'[j].errorMessage = Undefined]_vars

\* C12 happens: the placement failed, startWorkflow was called and succeeded,
\* and the upload was answered 200 with the pending job.
C12_Witness ==
    /\ lastResp.handler = "handleSign" /\ lastResp.code = 200
    /\ lastResp.calls = <<"createWorkflow", "uploadWorkflowDocument",
                          "applyDefaultSignatureField", "warn", "startWorkflow">>
    /\ lastResp.body.status = "pending"
    /\ heap[lastResp.req].status = "pending"

\* C13: a download request changes neither a job nor the store's keys; it is
\* answered 404 for an id that is not in the store, 409 without bytes for a
\* stored job that is not completed, and 200 exactly when the job is stored,
\* completed and holds a signed document, the body then being that document.
C13_DownloadOnlyWhenCompleted ==
    [][lastResp'.handler = "handleDownload" =>
          LET id == lastResp'.req IN
          /\ heap' = heap
          /\ jobs' = jobs
          /\ lastResp'.code \in {200, 404, 409}
          /\ id \notin jobs =>
                /\ lastResp'.code = 404
                /\ lastResp'.body = ErrorBody("Signing job not found")
          /\ (id \in jobs /\ heap[id].status # "completed") =>
                /\ lastResp'.code = 409
                /\ lastResp'.body = ErrorBody("Signed document is not available yet")
          /\ lastResp'.code = 200 <=>
                (/\ id \in jobs
                 /\ heap[id].status = "completed"
                 /\ heap[id].signedDocument # UndefinedBytes)
          /\ lastResp'.code = 200 =>
                /\ lastResp'.body.bytes = heap[id].signedDocument
                /\ lastResp'.body.contentType = heap[id].signedContentType
                /\ lastResp'.body.fileName = heap[id].signedFileName]_vars

\* C13 happens: the download of a stored job that is still pending was
\* answered 409 with an error body.
C13_Witness ==
    /\ lastResp.handler = "handleDownload" /\ lastResp.code = 409
    /\ lastResp.req \in jobs
    /\ heap[lastResp.req].status = "pending"
    /\ lastResp.body = ErrorBody("Signed document is not available yet")

\* C14: for an id that is not in the store (never created, or evicted),
\* setWorkflow, setWorkflowStatus, completeJob and failJob return the jobs as
\* they are; accordingly no step changes a job that is not in the store, and
\* the only key a step adds to the store is that of the job createJob makes.
C14_UnknownIdIsNoOp ==
    [][/\ \A id \in (AllIds \cup {UnknownId}) \ jobs :
             /\ \A w \in WorkflowIds, ws \in StartStatuses :
                   setWorkflow(heap, id, w, ws) = heap
             /\ \A ws \in FewStatuses \ {Undefined} :
                   setWorkflowStatus(heap, id, ws) = heap
             /\ \A d \in FewDownloads : completeJob(heap, id, d) = heap
             /\ \A m \in ErrorTexts : failJob(heap, id, m) = heap
       /\ \A j \in AllIds \ jobs : heap'[j] = heap[j]
       /\ jobs' \ jobs \subseteq {Len(heap) + 1}
       /\ Len(heap') = Len(heap) \/ jobs' = jobs \cup {Len(heap) + 1}]_vars

\* C14 happens: a status query whose job was evicted while the download was
\* awaited called completeJob for it and then found no job to answer with:
\* the evicted job is still pending and holds no document.
C14_Witness ==
    /\ IsStatusResponse /\ lastResp.code = 500
    /\ lastResp.calls = <<"fetchWorkflow", "ok", "downloadWorkflowDocuments", "ok">>
    /\ \E j \in AllIds \ jobs :
          Core(heap, j) = <<"pending", UndefinedBytes, Undefined>>

\* C15: a sweep of the eviction timer removes from the store every job whose
\* updatedAt lies more than the ttl before the time of the sweep, and keeps
\* every other job of the store, unchanged; it adds no key.
C15_SweepEvictsExpiredOnly ==
    [][(swept' /\ ~swept) =>
          /\ jobs' \subseteq jobs
          /\ \A j \in jobs :
                /\ now - heap[j].updatedAt > TTL => j \notin jobs'
                /\ now - heap[j].updatedAt <= TTL => j \in jobs' /\ heap'[j] = heap[j]]_vars

\* C15 happens: a sweep has just run, and a job that was last updated more
\* than the ttl before is gone from the store.
C15_Witness ==
    /\ swept
    /\ \E j \in AllIds \ jobs : now - heap[j].updatedAt > TTL

\* C16: no job of the store was last updated more than twice the ttl ago, and
\* right after a sweep none was last updated more than the ttl ago: a job
\* that is not updated again is deleted at most 2 * ttl after its updatedAt.
C16_StaleAtMostTwiceTtl ==
    \A j \in jobs :
        /\ now - heap[j].updatedAt <= 2 * TTL
        /\ swept => now - heap[j].updatedAt <= TTL

\* C16 happens: a job that was updated after its creation, at the instant of
\* a sweep, has been deleted by the sweep that ran exactly 2 * ttl later.
C16_Witness ==
    /\ swept
    /\ \E j \in AllIds \ jobs :
          /\ heap[j].updatedAt > heap[j].createdAt
          /\ now - heap[j].updatedAt = 2 * TTL

\* C17: a job's workflowId, once set, has the same value after every step:
\* it is never replaced and never cleared.
C17_WorkflowIdSetOnce ==
    [][\A j \in AllIds :
          heap[j].workflowId # UndefinedId =>
              heap'[j].workflowId = heap[j].workflowId]_vars

\* C17 happens: a job that got its workflowId from createWorkflow has since
\* been refreshed and completed by a status query, and still carries it.
C17_Witness ==
    /\ IsStatusResponse /\ lastResp.code = 200
    /\ lastResp.body.status = "completed"
    /\ lastResp.body.workflowId = "wfl_2"
    /\ heap[lastResp.body.jobId].workflowId = "wfl_2"
    /\ heap[lastResp.body.jobId].updatedAt > heap[lastResp.body.jobId].createdAt

\* what the claims say of an upload: it is not multipart, has no file, has a
\* file that is no PDF by its type nor by its name, or names no signer
Rejectable(r) ==
    \/ ~Includes(r.contentType, S_multipart)
    \/ ~r.hasFile
    \/ (r.fileType \notin {"", "application/pdf"}
          /\ ~EqIgnoreCase(SubSeq(r.fileName, Len(r.fileName) - 3, Len(r.fileName)),
                           S_dotPdf))
    \/ r.signerEmail = Undefined
    \/ \A i \in 1..Len(r.signerEmail) : r.signerEmail[i] = " "

RejectableUploads == {r \in Uploads : Rejectable(r)}

\* C18: an upload that is not multipart, has no file, has a non-PDF file or
\* names no signer is answered 400 and never accepted: the step that answers
\* it changes no job, no key of the store and no request, and the answer
\* records no provider call; and every 400 answer of handleSign is such a step.
C18_RejectedUploadChangesNothing ==
    [][/\ \A r \in RejectableUploads :
             /\ Len(heap') # Len(heap) => ~Upload(r)
             /\ (lastResp'.handler = "handleSign" /\ SignReject(r)) =>
                   /\ lastResp'.code = 400
                   /\ heap' = heap /\ jobs' = jobs /\ signs' = signs
       /\ (lastResp'.handler = "handleSign" /\ lastResp'.code = 400) =>
             /\ heap' = heap /\ jobs' = jobs /\ signs' = signs /\ polls' = polls
             /\ lastResp'.calls = <<>>]_vars

\* C18 happens: an upload without a signer's email was answered 400 while the
\* store held a job, which is as it was.
C18_Witness ==
    /\ lastResp.handler = "handleSign" /\ lastResp.code = 400
    /\ lastResp.body = ErrorBody("Signer email is required")
    /\ lastResp.calls = <<>>
    /\ jobs # {}

\* a job as createJob makes it
IsFreshJob(job, fileName, fileType) ==
    /\ job.status = "pending"
    /\ job.workflowId = UndefinedId
    /\ job.workflowStatus = Undefined
    /\ job.signedDocument = UndefinedBytes
    /\ job.errorMessage = Undefined
    /\ job.fileName = fileName
    /\ job.fileType = fileType
    /\ job.createdAt = now /\ job.updatedAt = now

\* C19: createJob, applied to the jobs of any reachable state, adds exactly
\* one job under an id that no job has, pending and without workflowId,
\* signed document or error message, and leaves every other job as it is;
\* a step that adds a job to the store is the first step of a new upload and
\* adds that one job only, and no other step of an upload adds a job: there
\* is one job per accepted upload.
C19_CreateJobAddsOnePendingJob ==
    [][/\ \A n \in FileNames, t \in FileTypes \ {""} :
             LET created == createJob(heap, n, t)
                 id == Len(heap) + 1
             IN /\ Len(created) = Len(heap) + 1
                /\ id \notin jobs /\ id \notin AllIds
                /\ \A j \in AllIds : created[j] = heap[j]
                /\ IsFreshJob(created[id], n, t)
       /\ (Len(heap') # Len(heap) \/ jobs' \ jobs # {}) =>
             /\ Len(heap') = Len(heap) + 1
             /\ jobs' = jobs \cup {Len(heap) + 1}
             /\ \A j \in AllIds : heap'[j] = heap[j]
             /\ heap'[Len(heap')].status = "pending"
             /\ heap'[Len(heap')].workflowId = UndefinedId
             /\ heap'[Len(heap')].signedDocument = UndefinedBytes
             /\ heap'[Len(heap')].errorMessage = Undefined
             /\ Len(signs') = Len(signs) + 1
             /\ \A j \in AllIds : signs'[j] = signs[j]
       /\ Len(signs') = Len(heap')]_vars

\* C19 happens: an upload has just been accepted at a time after the start:
\* its job is in the store, pending, with nothing set, and createWorkflow is
\* awaited.
C19_Witness ==
    \E j \in jobs :
        /\ signs[j].pc = "createWorkflow"
        /\ now > 0
        /\ IsFreshJob(heap[j], heap[j].fileName, heap[j].fileType)

\* `result` is `original` with "-signed" put before the extension that starts
\* at its last dot, or with "-signed.pdf" put after it when it has no dot
DerivedFrom(original, result) ==
    IF \A i \in 1..Len(original) : original[i] # "."
    THEN result = original \o S_signedPdf
    ELSE \E i \in 1..Len(original) :
            /\ original[i] = "."
            /\ \A k \in (i + 1)..Len(original) : original[k] # "."
            /\ result = SubSeq(original, 1, i - 1) \o S_signed
                            \o SubSeq(original, i, Len(original))

\* C20: a completeJob that is given no file name stores the name derived from
\* the job's original file name: "-signed" before the extension that starts
\* at the last dot, "-signed.pdf" at the end when there is no dot; so
\* report.pdf gives report-signed.pdf and README gives README-signed.pdf.
C20_DerivedSignedName ==
    [][/\ defaultSignedName(S_reportPdf) =
              <<"r", "e", "p", "o", "r", "t">> \o S_signedPdf
       /\ defaultSignedName(S_README) = S_README \o S_signedPdf
       /\ \A d \in FewDownloads :
             (polls[1].pc = "download" /\ polls'[1].pc = "idle"
                /\ d.fileName = Undefined /\ polls[1].jobId \in jobs
                /\ DownloadOk(1, d)) =>
                 DerivedFrom(heap[polls[1].jobId].fileName,
                             heap'[polls[1].jobId].signedFileName)]_vars

\* C20 happens: the download of the job of a.b.pdf carried no file name, and
\* the completed job is named a.b-signed.pdf.
C20_Witness ==
    /\ IsStatusResponse /\ lastResp.code = 200
    /\ lastResp.body.status = "completed"
    /\ lastResp.body.fileName = <<"a", ".", "b", ".", "p", "d", "f">>
    /\ lastResp.body.signedFileName =
           <<"a", ".", "b", "-", "s", "i", "g", "n", "e", "d", ".", "p", "d", "f">>

\* C21: setWorkflow, setWorkflowStatus, completeJob and failJob, applied to a
\* job of the store, set its updatedAt to the current time; over every step
\* a job's updatedAt does not decrease, is not earlier than its createdAt and
\* is the current time whenever the step changed the job, while fileName,
\* fileType and createdAt stay as createJob set them.
C21_UpdatedAtRefreshed ==
    [][/\ \A j \in jobs :
             /\ \A w \in WorkflowIds, ws \in StartStatuses :
                   setWorkflow(heap, j, w, ws)[j].updatedAt = now
             /\ \A ws \in FewStatuses \ {Undefined} :
                   setWorkflowStatus(heap, j, ws)[j].updatedAt = now
             /\ \A d \in FewDownloads : completeJob(heap, j, d)[j].updatedAt = now
             /\ \A m \in ErrorTexts : failJob(heap, j, m)[j].updatedAt = now
       /\ \A j \in AllIds :
             /\ heap'[j].updatedAt >= heap[j].updatedAt
             /\ heap'[j].updatedAt >= heap'[j].createdAt
             /\ heap'[j] # heap[j] => heap'[j].updatedAt = now
             /\ heap'[j].fileName = heap[j].fileName
             /\ heap'[j].fileType = heap[j].fileType
             /\ heap'[j].createdAt = heap[j].createdAt]_vars

\* C21 happens: a job created at the start was completed by a status query
\* two ticks later, and carries that time as its updatedAt.
C21_Witness ==
    /\ IsStatusResponse /\ lastResp.code = 200
    /\ lastResp.body.status = "completed"
    /\ heap[lastResp.body.jobId].createdAt = 0
    /\ heap[lastResp.body.jobId].updatedAt = now
    /\ now >= 2

\* C22: a status query that found its job in the store when it started (it is
\* answered at once, or after provider calls) is answered 200 with the
\* summary of the job, never with an internal error, also when a sweep of the
\* eviction timer runs while its provider calls are in flight.
C22_StatusQueryNeverInternalError ==
    IsStatusResponse =>
        /\ lastResp.code # 500
        /\ lastResp.calls # <<>> => lastResp.code = 200

\* the provider calls of an upload in the order the claims give, with the
\* outcome of the placement and the failure that ended the request, if any
CallOrders ==
    LET create == <<"createWorkflow">>
        upload == Append(create, "uploadWorkflowDocument")
        field == Append(upload, "applyDefaultSignatureField")
        starts == {Append(upload, "startWorkflow"),
                   field \o <<"ok", "startWorkflow">>,
                   field \o <<"warn", "startWorkflow">>}
    IN {create, upload, field} \cup starts
         \cup {Append(c, "error") : c \in {create, upload} \cup starts}

\* C23: the provider calls of an upload are made in the order createWorkflow,
\* uploadWorkflowDocument, applyDefaultSignatureField, startWorkflow; the
\* upload is called only by the step in which createWorkflow succeeded, which
\* records the workflow's id in the job (if stored) before; the field is
\* placed only when the upload returned a document id, and startWorkflow is
\* called only after a successful upload, with or without the placement.
C23_ProviderCallOrder ==
    [][/\ \A j \in 1..Len(signs') : signs'[j].calls \in CallOrders
       /\ \A j \in AllIds :
             /\ (signs'[j].pc = "upload" /\ signs[j].pc # "upload") =>
                   /\ signs[j].pc = "createWorkflow"
                   /\ \E w \in WorkflowIds, ws \in StartStatuses :
                         CreateWorkflowOk(j, w, ws)
                   /\ signs'[j].workflow.id # UndefinedId
                   /\ j \in jobs => heap'[j].workflowId = signs'[j].workflow.id
             /\ (signs'[j].pc = "field" /\ signs[j].pc # "field") =>
                   signs[j].pc = "upload" /\ UploadOk(j, TRUE)
             /\ (signs'[j].pc = "start" /\ signs[j].pc # "start") =>
                   \/ signs[j].pc = "upload" /\ UploadOk(j, FALSE)
                   \/ signs[j].pc = "field" /\ \E ok \in BOOLEAN : FieldDone(j, ok)]_vars

\* C23 happens: the upload returned no document id, so the field was not
\* placed; startWorkflow was called next and the upload was answered 200 for
\* a job that carries the workflow's id.
C23_Witness ==
    /\ lastResp.handler = "handleSign" /\ lastResp.code = 200
    /\ lastResp.calls = <<"createWorkflow", "uploadWorkflowDocument", "startWorkflow">>
    /\ heap[lastResp.req].workflowId = lastResp.body.workflowId
    /\ lastResp.body.workflowId \in WorkflowIds

\* job j is in the store, pending, with a workflowId
PendingWithWorkflow(j) ==
    /\ j \in jobs
    /\ heap[j].status = "pending"
    /\ heap[j].workflowId # UndefinedId

Completed(j) == j \in AllIds /\ heap[j].status = "completed"

\* from some time on no provider call of a status query fails: the swallowed
\* errors are finitely many
ErrorsStop == <>[][~(FetchFail(1) \/ DownloadFail(1))]_vars

\* C24 as stated: if the provider calls fail finitely often, a pending job
\* with a workflowId whose workflow is finished eventually becomes completed.
C24_EventuallyCompleted ==
    ErrorsStop => \A j \in JobIds : PendingWithWorkflow(j) ~> Completed(j)

\* C24 amended: if the provider calls fail finitely often, a pending job with
\* a workflowId whose workflow is finished eventually becomes completed or
\* is evicted from the store: failed refreshes do not renew updatedAt, so
\* errors that last longer than the ttl cost the job.
C24_EventuallyCompletedOrEvicted ==
    ErrorsStop =>
        \A j \in JobIds : PendingWithWorkflow(j) ~> (Completed(j) \/ j \notin jobs)

\* C24 happens: after a poll whose download failed, the next poll fetched
\* "Finished" again, downloaded and completed the job.
C24_Witness ==
    /\ IsStatusResponse /\ lastResp.code = 200
    /\ lastResp.history.repeat
    /\ lastResp.calls = <<"fetchWorkflow", "ok", "downloadWorkflowDocuments", "ok">>
    /\ lastResp.body.status = "completed"
    /\ lastResp.body.downloadUrl

\* ------------------------------------------------------------------- C25
\* the upload request of job j has returned its answer
SignDone(j) == signs[j].pc = "done"

PendingCorrelated(job) ==
    job.status = "pending" /\ job.workflowId # UndefinedId

ErrorExplained(job) ==
    job.status = "error" /\ job.errorMessage # Undefined

\* C25: when the upload request of a job returns (200 or 502), the job, if
\* it is still in the store, is pending with a workflowId or error with an
\* errorMessage; and at no later time is the job of a returned upload in the
\* store pending without a workflowId.
C25_UploadLeavesJobCorrelatedOrFailed ==
    [][\A j \in JobIds :
         (j <= Len(signs') /\ signs'[j].pc = "done" /\ j \in jobs') =>
            /\ ~(heap'[j].status = "pending" /\ heap'[j].workflowId = UndefinedId)
            /\ (j <= Len(signs) /\ signs[j].pc # "done") =>
                   /\ PendingCorrelated(heap'[j]) \/ ErrorExplained(heap'[j])
                   /\ signs'[j].code = 200 => PendingCorrelated(heap'[j])
                   /\ signs'[j].code = 502 => ErrorExplained(heap'[j])]_vars

\* the first provider call failed: the upload was answered 502 and its job is
\* in the store, in error with the message, without a workflowId
C25_Witness ==
    /\ lastResp.handler = "handleSign" /\ lastResp.code = 502
    /\ lastResp.calls = <<"createWorkflow", "error">>
    /\ lastResp.req \in jobs
    /\ SignDone(lastResp.req)
    /\ ErrorExplained(heap[lastResp.req])
    /\ heap[lastResp.req].workflowId = UndefinedId

\* ------------------------------------------------------------------- C26
\* the records of the jobs other than `id` are what they were
OthersUnchanged(id) == \A k \in AllIds \ {id} : heap'[k] = heap[k]

\* a step of the upload request of job j
SignStepOf(j) == signs'[j] # signs[j]

\* a step of the status query of poller p after its first read of the job
PollStepOf(p) == polls[p].pc # "idle" /\ polls'[p].pc # polls[p].pc

\* a status query that read the job and answered, or went on to fetch
ReadStep ==
    \/ lastResp'.handler = "handleGetStatus" /\ lastResp'.calls = <<>>
    \/ \E p \in Pollers : polls[p].pc = "idle" /\ polls'[p].pc # "idle"

DownloadStep == lastResp'.handler = "handleDownload"

\* C26: a step of an upload request (setWorkflow, setWorkflowStatus, failJob)
\* or of a status query (setWorkflowStatus, completeJob, failJob) on one job
\* leaves the record of every other job as it was and the set of stored jobs
\* as it was; getJob (the first read of a status query) and a download change
\* no record at all, so no updatedAt; and no other step writes a record.
C26_OtherJobsUnchanged ==
    [][/\ \A j \in AllIds : SignStepOf(j) => OthersUnchanged(j) /\ jobs' = jobs
       /\ \A p \in Pollers :
             PollStepOf(p) => OthersUnchanged(polls[p].jobId) /\ jobs' = jobs
       /\ ReadStep => heap' = heap /\ jobs' = jobs
       /\ DownloadStep => heap' = heap /\ jobs' = jobs
       /\ heap' # heap =>
             \/ \E j \in AllIds : SignStepOf(j)
             \/ \E p \in Pollers : PollStepOf(p)]_vars

\* a status query has just completed job 1 at a later time than the last
\* write to job 2, which is in the store with the failure of its upload
C26_Witness ==
    /\ jobs = {1, 2}
    /\ lastResp.handler = "handleGetStatus" /\ lastResp.code = 200
    /\ lastResp.body.jobId = 1 /\ lastResp.body.status = "completed"
    /\ lastResp.calls = <<"fetchWorkflow", "ok", "downloadWorkflowDocuments", "ok">>
    /\ heap[1].updatedAt = now
    /\ heap[2].status = "error" /\ heap[2].workflowId # UndefinedId
    /\ heap[2].updatedAt < now

====
